---- MODULE Spec2Model ----
(***************************************************************************)
(* The mount table of afs (src/src/virtual_fs.rs): VirtualFs owns a        *)
(* BTreeMap from base path to backend, and implements the Filesystem trait *)
(* by resolving a virtual path against the bindings.  Path validation is   *)
(* src/src/lib.rs; backends are modelled after StdFs (src/src/std_fs.rs).  *)
(*                                                                         *)
(* A path argument is a sequence of raw segments, as written between the   *)
(* separators.  Every comparison the code makes on paths (PathBuf's Eq and *)
(* Ord, starts_with, strip_prefix, is_valid_path) goes through             *)
(* Path::components(), modelled by Components below.                       *)
(***************************************************************************)
EXTENDS Naturals, Sequences, FiniteSets

\* Longest raw path handed to any operation.
MaxLen == 2

\* The backend instances a caller has to mount.
Backends == {"A", "B"}

\* Segment kinds of std::path::Component.  Names are the Normal segments.
Names == {"a", "b"}
CurDir == "."
ParentDir == ".."
RootDir == "/"
Prefix == "C:"

\* The bodies of raw paths: segments that may stand at any position.
Bodies(n) == UNION {[1..k -> Names \cup {CurDir, ParentDir}] : k \in 0..n}

\* Raw paths: a body, optionally behind a root or a prefix.
RawPaths ==
    Bodies(MaxLen) \cup
    {<<h>> \o t : h \in {RootDir, Prefix}, t \in Bodies(MaxLen - 1)}

\* Path::components(): a "." segment is dropped unless it begins the path
\* (only a prefix may stand before it); every other segment is a component.
RECURSIVE ComponentsFrom(_, _)
ComponentsFrom(path, i) ==
    IF i > Len(path) THEN <<>>
    ELSE LET keep == path[i] # CurDir \/ \A j \in 1..(i - 1) : path[j] = Prefix
         IN  (IF keep THEN <<path[i]>> ELSE <<>>) \o ComponentsFrom(path, i + 1)

Components(path) == ComponentsFrom(path, 1)

rejects_parent_dir_only(path) ==
    LET cs == Components(path)
    IN  \A i \in DOMAIN cs : cs[i] # ParentDir

\* lib.rs is_valid_path: every component is Component::Normal.
is_valid_path(path) ==
    LET cs == Components(path)
    IN  \A i \in DOMAIN cs : cs[i] \in Names

\* Path::starts_with, on components.
starts_with(p, base) ==
    /\ Len(base) <= Len(p)
    /\ SubSeq(p, 1, Len(base)) = base

strip_ok_first_component(vpath, vbase) ==
    /\ Len(vbase) <= Len(vpath)
    /\ (vbase # <<>> => vpath[1] = vbase[1])

\* `if let Ok(vrest) = vpath.strip_prefix(vbase)`: whether the strip succeeds.
strip_ok(vpath, vbase) == starts_with(vpath, vbase)

no_strip(vpath, vbase) == vpath

\* The remainder vrest of a successful vpath.strip_prefix(vbase).
strip_prefix(vpath, vbase) == SubSeq(vpath, Len(vbase) + 1, Len(vpath))

\* Ord of Component: Prefix < RootDir < CurDir < ParentDir < Normal, and
\* Normal segments by their bytes.
Rank(c) ==
    CASE c = Prefix -> 0
      [] c = RootDir -> 1
      [] c = CurDir -> 2
      [] c = ParentDir -> 3
      [] c = "a" -> 4
      [] OTHER -> 5

\* Ord of PathBuf: lexicographic on components.
RECURSIVE PathLess(_, _)
PathLess(p, q) ==
    IF p = <<>> THEN q # <<>>
    ELSE IF q = <<>> THEN FALSE
    ELSE IF p[1] # q[1] THEN Rank(p[1]) < Rank(q[1])
    ELSE PathLess(Tail(p), Tail(q))

\* The keys of a table in BTreeMap iteration order.
RECURSIVE SortedKeys(_)
SortedKeys(S) ==
    IF S = {} THEN <<>>
    ELSE LET m == CHOOSE x \in S : \A y \in S \ {x} : PathLess(x, y)
         IN  <<m>> \o SortedKeys(S \ {m})

----------------------------------------------------------------------------
\* Metadata and results

VDIR_META_writable ==
    [is_readonly |-> FALSE, file_type |-> "DIRECTORY", len |-> "None",
     created |-> "None", accessed |-> "None", modified |-> "None"]

VDIR_META ==
    [is_readonly |-> TRUE, file_type |-> "DIRECTORY", len |-> "None",
     created |-> "None", accessed |-> "None", modified |-> "None"]

\* Metadata as a backend builds it from fs::Metadata: length always present.
BackendMeta(ft) ==
    [is_readonly |-> FALSE, file_type |-> ft, len |-> "Some",
     created |-> "Some", accessed |-> "Some", modified |-> "Some"]

\* Placeholder in results that carry no Metadata.
NoMeta ==
    [is_readonly |-> FALSE, file_type |-> "-", len |-> "-",
     created |-> "-", accessed |-> "-", modified |-> "-"]

\* An io::Result (or Result<(), MountError>) as seen by the caller.
Ok == [status |-> "Ok", meta |-> NoMeta, entries |-> {}, file |-> "-"]
OkMeta(m) == [status |-> "Ok", meta |-> m, entries |-> {}, file |-> "-"]
OkEntries(es) == [status |-> "Ok", meta |-> NoMeta, entries |-> es, file |-> "-"]
OkFile(fs) == [status |-> "Ok", meta |-> NoMeta, entries |-> {}, file |-> fs]
Err(kind) == [status |-> kind, meta |-> NoMeta, entries |-> {}, file |-> "-"]

\* virtual_fs.rs not_found().
not_found == Err("NotFound")

denied_as_missing == Err("NotFound")

\* virtual_fs.rs permission_denied().
permission_denied == Err("PermissionDenied")

\* Errors a backend may answer with.
BackendErrors == {"NotFound", "AlreadyExists"}

\* What a backend may return for an operation on a (valid) path relative to
\* its own base.  read_dir keys are full paths relative to the backend's base.
BackendReturns(fs, op, vrest) ==
    {Err(e) : e \in BackendErrors} \cup
    (CASE op = "metadata" -> {OkMeta(BackendMeta(ft)) : ft \in {"FILE", "DIRECTORY"}}
       [] op = "open_file" -> {OkFile(fs)}
       [] op = "read_dir" ->
            {OkEntries({[path |-> vrest \o <<n>>, meta |-> BackendMeta("FILE")] : n \in S})
                : S \in SUBSET Names}
       [] OTHER -> {Ok})

----------------------------------------------------------------------------
\* State

VARIABLES
    mounted,    \* VirtualFs.mounted: base path (components) -> backend
    last        \* the call that has just returned, with what the caller sees

vars == <<mounted, last>>

EmptyTable == [k \in {} |-> "-"]

Range(m) == {m[k] : k \in DOMAIN m}

\* No call outstanding.
Idle ==
    [op |-> "none", path |-> <<>>, opts |-> "-", fs |-> "-", pre |-> EmptyTable,
     result |-> Ok, calls |-> <<>>,
     afterMount |-> FALSE, mountPre |-> EmptyTable, mountOk |-> FALSE]

Init ==
    /\ mounted = EmptyTable
    /\ last = Idle

----------------------------------------------------------------------------
\* mount / unmount / unmount_all

overlaps_equal_only(vbase, vpath) == vbase = vpath

overlaps_one_way(vbase, vpath) == starts_with(vpath, vbase)

\* The closure of mount's `any`.
overlaps(vbase, vpath) == starts_with(vbase, vpath) \/ starts_with(vpath, vbase)

\* BTreeMap::insert.
inserted(m, key, fs) ==
    [k \in DOMAIN m \cup {key} |-> IF k = key THEN fs ELSE m[k]]

removed_nothing(m, key) == m

\* BTreeMap::remove.
removed(m, key) == [k \in DOMAIN m \ {key} |-> m[k]]

mount_result(m, vpath) ==
    IF ~is_valid_path(vpath) THEN Err("InvalidPath")
    ELSE IF \E vbase \in DOMAIN m : overlaps(vbase, Components(vpath))
         THEN Err("LocationOverlap")
    ELSE Ok

\* VirtualFs::mount.  The backend is moved into the call: a mount that binds
\* takes an instance that is not bound; a mount that fails drops the instance
\* passed, whichever it was.
mount ==
    /\ last.op = "none"
    /\ \E vpath \in RawPaths :
          LET r == mount_result(mounted, vpath)
          IN  IF r.status = "Ok"
              THEN \E fs \in Backends \ Range(mounted) :
                      /\ mounted' = inserted(mounted, Components(vpath), fs)
                      /\ last' = [Idle EXCEPT !.op = "mount", !.path = vpath, !.fs = fs,
                                              !.pre = mounted, !.result = r]
              ELSE /\ mounted' = mounted
                   /\ last' = [Idle EXCEPT !.op = "mount", !.path = vpath,
                                           !.pre = mounted, !.result = r]

\* The paths the caller may pass to unmount now: any once the last result is
\* taken, and at once after a mount the base just passed to it.
UnmountArgs ==
    CASE last.op = "none" -> RawPaths
      [] last.op = "mount" -> {last.path}
      [] OTHER -> {}

\* VirtualFs::unmount: Option<Box<Filesystem>>.  After a mount it remembers
\* what that mount started from.
unmount ==
    \E vpath \in UnmountArgs :
       LET key == Components(vpath)
       IN  /\ mounted' = removed(mounted, key)
           /\ last' = [Idle EXCEPT
                 !.op = "unmount", !.path = vpath, !.pre = mounted,
                 !.result = IF key \in DOMAIN mounted
                            THEN [Ok EXCEPT !.status = "Some", !.file = mounted[key]]
                            ELSE [Ok EXCEPT !.status = "None"],
                 !.afterMount = (last.op = "mount"),
                 !.mountPre = IF last.op = "mount" THEN last.pre ELSE EmptyTable,
                 !.mountOk = (last.op = "mount" /\ last.result.status = "Ok")]

\* VirtualFs::unmount_all.
unmount_all ==
    /\ last.op = "none"
    /\ mounted' = EmptyTable
    /\ last' = [Idle EXCEPT !.op = "unmount_all", !.pre = mounted]

\* The caller takes the returned value; the table keeps nothing of the call.
Return ==
    /\ last.op # "none"
    /\ last' = Idle
    /\ UNCHANGED mounted

----------------------------------------------------------------------------
\* impl Filesystem for VirtualFs

\* lib.rs validate_path's error.
invalid_input == Err("InvalidInput")

OpenOptions == {"READ", "WRITE"}

\* The loop of metadata, open_file, remove_file, remove_dir and
\* remove_dir_all over the bindings from index i: the first binding that
\* matches by either rule decides.
RECURSIVE first_match(_, _, _)
first_match(keys, i, vpath) ==
    IF i > Len(keys) THEN [kind |-> "none", base |-> <<>>]
    ELSE IF strip_ok(vpath, keys[i]) THEN [kind |-> "delegate", base |-> keys[i]]
    ELSE IF starts_with(keys[i], vpath) THEN [kind |-> "ancestor", base |-> keys[i]]
    ELSE first_match(keys, i + 1, vpath)

\* The loop of create_dir and create_dir_all: only a stripped prefix matches.
RECURSIVE create_match(_, _, _)
create_match(keys, i, vpath) ==
    IF i > Len(keys) THEN [kind |-> "none", base |-> <<>>]
    ELSE IF strip_ok(vpath, keys[i]) THEN [kind |-> "delegate", base |-> keys[i]]
    ELSE create_match(keys, i + 1, vpath)

RECURSIVE read_dir_scan_first(_, _, _, _)
read_dir_scan_first(keys, i, vpath, ret) ==
    IF i > Len(keys) THEN [kind |-> "collected", base |-> <<>>, ret |-> ret]
    ELSE IF strip_ok(vpath, keys[i])
         THEN [kind |-> "delegate", base |-> keys[i], ret |-> ret]
    ELSE IF starts_with(keys[i], vpath)
         THEN [kind |-> "collected", base |-> <<>>,
               ret |-> ret \cup {[path |-> strip_prefix(keys[i], vpath), meta |-> VDIR_META]}]
    ELSE read_dir_scan_first(keys, i + 1, vpath, ret)

\* The loop of read_dir: it collects every binding beneath vpath into ret and
\* goes on, unless a binding's base can be stripped from vpath.
RECURSIVE read_dir_scan(_, _, _, _)
read_dir_scan(keys, i, vpath, ret) ==
    IF i > Len(keys) THEN [kind |-> "collected", base |-> <<>>, ret |-> ret]
    ELSE IF strip_ok(vpath, keys[i])
         THEN [kind |-> "delegate", base |-> keys[i], ret |-> ret]
    ELSE IF starts_with(keys[i], vpath)
         THEN read_dir_scan(keys, i + 1, vpath,
                  ret \cup {[path |-> strip_prefix(keys[i], vpath), meta |-> VDIR_META]})
    ELSE read_dir_scan(keys, i + 1, vpath, ret)

\* A result made by the table itself: no backend is called.
Local(r) == {[result |-> r, calls |-> <<>>]}

\* `return fs.op(vrest)`: one call of the bound backend, whose return value
\* is the table's.
Delegate(m, op, opts, vpath, vbase) ==
    LET fs == m[vbase]
        vrest == strip_prefix(vpath, vbase)
    IN  {[result |-> r,
          calls |-> <<[fs |-> fs, op |-> op, path |-> vrest, opts |-> opts, ret |-> r]>>]
            : r \in BackendReturns(fs, op, vrest)}

\* The five operations that stop at the first match; they differ in what an
\* ancestor match answers.
FirstMatchOp(m, op, path, opts, at_boundary) ==
    IF ~is_valid_path(path) THEN Local(invalid_input)
    ELSE LET vpath == Components(path)
             d == first_match(SortedKeys(DOMAIN m), 1, vpath)
         IN  CASE d.kind = "delegate" -> Delegate(m, op, opts, vpath, d.base)
               [] d.kind = "ancestor" -> Local(at_boundary)
               [] OTHER -> Local(not_found)

\* create_dir and create_dir_all.
CreateOp(m, op, path) ==
    IF ~is_valid_path(path) THEN Local(invalid_input)
    ELSE LET vpath == Components(path)
             d == create_match(SortedKeys(DOMAIN m), 1, vpath)
         IN  CASE d.kind = "delegate" -> Delegate(m, op, "-", vpath, d.base)
               [] OTHER -> Local(permission_denied)

\* read_dir.  debug_assert!(ret.is_empty()) panics in a debug build when a
\* backend matches after entries were collected; a release build delegates.
ReadDirOp(m, path) ==
    IF ~is_valid_path(path) THEN Local(invalid_input)
    ELSE LET vpath == Components(path)
             d == read_dir_scan(SortedKeys(DOMAIN m), 1, vpath, {})
         IN  CASE d.kind = "delegate" ->
                    Delegate(m, "read_dir", "-", vpath, d.base) \cup
                    (IF d.ret # {} THEN Local(Err("Panic")) ELSE {})
               [] d.ret # {} -> Local(OkEntries(d.ret))
               [] OTHER -> Local(not_found)

FsOps ==
    {"metadata", "open_file", "remove_file", "read_dir",
     "create_dir", "create_dir_all", "remove_dir", "remove_dir_all"}

\* What a call of operation op may return on table m, with the backend calls
\* it makes.
Call(m, op, path, opts) ==
    CASE op = "metadata" -> FirstMatchOp(m, op, path, opts, OkMeta(VDIR_META))
      [] op = "read_dir" -> ReadDirOp(m, path)
      [] op \in {"create_dir", "create_dir_all"} -> CreateOp(m, op, path)
      [] OTHER -> FirstMatchOp(m, op, path, opts, permission_denied)

\* What the caller holds when a call of op returns outcome o.
Returned(op, path, opts, o) ==
    [Idle EXCEPT !.op = op, !.path = path, !.opts = opts, !.pre = mounted,
                 !.result = o.result, !.calls = o.calls]

metadata ==
    /\ last.op = "none"
    /\ \E path \in RawPaths : \E o \in Call(mounted, "metadata", path, "-") :
          last' = Returned("metadata", path, "-", o)
    /\ UNCHANGED mounted

open_file ==
    /\ last.op = "none"
    /\ \E path \in RawPaths, opts \in OpenOptions :
          \E o \in Call(mounted, "open_file", path, opts) :
             last' = Returned("open_file", path, opts, o)
    /\ UNCHANGED mounted

remove_file ==
    /\ last.op = "none"
    /\ \E path \in RawPaths : \E o \in Call(mounted, "remove_file", path, "-") :
          last' = Returned("remove_file", path, "-", o)
    /\ UNCHANGED mounted

read_dir ==
    /\ last.op = "none"
    /\ \E path \in RawPaths : \E o \in Call(mounted, "read_dir", path, "-") :
          last' = Returned("read_dir", path, "-", o)
    /\ UNCHANGED mounted

create_dir ==
    /\ last.op = "none"
    /\ \E path \in RawPaths : \E o \in Call(mounted, "create_dir", path, "-") :
          last' = Returned("create_dir", path, "-", o)
    /\ UNCHANGED mounted

create_dir_all ==
    /\ last.op = "none"
    /\ \E path \in RawPaths : \E o \in Call(mounted, "create_dir_all", path, "-") :
          last' = Returned("create_dir_all", path, "-", o)
    /\ UNCHANGED mounted

remove_dir ==
    /\ last.op = "none"
    /\ \E path \in RawPaths : \E o \in Call(mounted, "remove_dir", path, "-") :
          last' = Returned("remove_dir", path, "-", o)
    /\ UNCHANGED mounted

remove_dir_all ==
    /\ last.op = "none"
    /\ \E path \in RawPaths : \E o \in Call(mounted, "remove_dir_all", path, "-") :
          last' = Returned("remove_dir_all", path, "-", o)
    /\ UNCHANGED mounted

----------------------------------------------------------------------------

\* A caller makes one call at a time and takes its result before the next,
\* except that an unmount of the base just passed to mount may follow at once.
Next ==
    \/ mount
    \/ unmount
    \/ unmount_all
    \/ metadata
    \/ open_file
    \/ remove_file
    \/ read_dir
    \/ create_dir
    \/ create_dir_all
    \/ remove_dir
    \/ remove_dir_all
    \/ Return

Spec == Init /\ [][Next]_vars

----------------------------------------------------------------------------
\* Properties

\* b is a leading-segment prefix of p (both sequences of components).
IsPrefix(b, p) == Len(b) <= Len(p) /\ \A i \in 1..Len(b) : p[i] = b[i]

\* p with its first Len(b) components taken off.
Suffix(p, b) == [i \in 1..(Len(p) - Len(b)) |-> p[i + Len(b)]]

\* Some component of the path is not a plain segment.
HasNonPlainComponent(path) ==
    LET cs == Components(path)
    IN  \E i \in DOMAIN cs : cs[i] \notin Names

\* Some segment of the path as written is not a plain segment.
HasNonPlainSegment(path) == \E i \in DOMAIN path : path[i] \notin Names

\* The components of the path of the last call.
P == Components(last.path)

WellFormed == ~HasNonPlainComponent(last.path)

\* Bases bound before the last call that are a prefix of its path.
BasesAbove == {b \in DOMAIN last.pre : IsPrefix(b, P)}

\* Bases bound before the last call that have its path as a prefix.
BasesBeneath == {b \in DOMAIN last.pre : IsPrefix(P, b)}

\* The synthesized directory metadata, field by field.
IsVirtualDir(meta) ==
    /\ meta.is_readonly = TRUE
    /\ meta.file_type = "DIRECTORY"
    /\ meta.len = "None"
    /\ meta.created = "None"
    /\ meta.accessed = "None"
    /\ meta.modified = "None"

\* Two tables answer every Filesystem operation on every path alike: the
\* same result made by the table, or the same call of the same backend.
ObservablyIdentical(m1, m2) ==
    \/ m1 = m2
    \/ \A op \in FsOps, path \in RawPaths, opts \in OpenOptions :
          Call(m1, op, path, opts) = Call(m2, op, path, opts)

\* C1: after any sequence of mount, unmount and unmount_all, no two distinct
\* bound bases overlap: neither is a leading-segment prefix of the other.
C1_NoOverlap ==
    \A b1 \in DOMAIN mounted : \A b2 \in DOMAIN mounted :
        b1 # b2 => ~IsPrefix(b1, b2) /\ ~IsPrefix(b2, b1)

\* Two bindings side by side, the second just mounted.
C1_Witness ==
    /\ last.op = "mount"
    /\ last.result.status = "Ok"
    /\ Cardinality(DOMAIN mounted) >= 2

\* C2: mount of a well-formed base that equals, is a prefix of, or has as a
\* prefix a bound base fails with LocationOverlap and binds nothing.
C2_OverlapRejected ==
    (/\ last.op = "mount"
     /\ WellFormed
     /\ BasesAbove \cup BasesBeneath # {})
    => /\ last.result.status = "LocationOverlap"
       /\ mounted = last.pre

\* A mount beneath a bound base (the "data/cache" after "data" case) failed.
C2_Witness ==
    /\ last.op = "mount"
    /\ WellFormed
    /\ \E b \in BasesAbove : b # P
    /\ last.result.status = "LocationOverlap"

\* C3 as stated: mount(B, fs) followed at once by unmount(B) leaves the table
\* observably identical to the table before the mount, whether or not the
\* mount succeeded.
C3_MountUnmountRestores ==
    (last.op = "unmount" /\ last.afterMount)
    => ObservablyIdentical(mounted, last.mountPre)

\* C3 amended: mount(B, fs) followed at once by unmount(B) leaves the table
\* observably identical to the table before the mount, when B was not
\* already bound at the mount (in particular when the mount succeeded).
C3_MountUnmountRestoresUnbound ==
    (/\ last.op = "unmount"
     /\ last.afterMount
     /\ P \notin DOMAIN last.mountPre)
    => ObservablyIdentical(mounted, last.mountPre)

\* A successful mount into a table with a binding, undone at once.
C3_Witness ==
    /\ last.op = "unmount"
    /\ last.afterMount
    /\ last.mountOk
    /\ last.mountPre # EmptyTable
    /\ last.result.status = "Some"

\* C4: with distinct bases P1 and P2 bound, an operation on a path at or
\* inside P1 calls at most one backend, and never the backend bound at P2.
C4_OnlyOwnBackend ==
    last.op \in FsOps
    => \A P1 \in BasesAbove : \A P2 \in DOMAIN last.pre \ {P1} :
          /\ Len(last.calls) <= 1
          /\ \A i \in DOMAIN last.calls : last.calls[i].fs # last.pre[P2]

\* An operation strictly inside one of two bound subtrees reached a backend.
C4_Witness ==
    /\ last.op \in FsOps
    /\ Cardinality(DOMAIN last.pre) >= 2
    /\ \E P1 \in BasesAbove : P1 # P
    /\ Len(last.calls) = 1

\* C5: when a bound base B is a prefix of the well-formed path, the operation
\* makes exactly one call, of the same operation with the same options on
\* B's backend with B stripped from the path, and returns that call's result.
C5_DelegatesVerbatim ==
    (last.op \in FsOps /\ WellFormed)
    => \A B \in BasesAbove :
          /\ Len(last.calls) = 1
          /\ last.calls[1].fs = last.pre[B]
          /\ last.calls[1].op = last.op
          /\ last.calls[1].opts = last.opts
          /\ last.calls[1].path = Suffix(P, B)
          /\ last.result = last.calls[1].ret

\* A backend's error came back through a non-empty base with a remainder.
C5_Witness ==
    /\ last.op \in FsOps
    /\ WellFormed
    /\ \E B \in BasesAbove : B # <<>> /\ B # P
    /\ last.result.status = "AlreadyExists"

\* C6: read_dir of a well-formed path that no bound base prefixes calls no
\* backend; with N >= 1 bases beneath the path it returns exactly N entries,
\* one per base, keyed by the base relative to the path, each with the
\* synthesized directory metadata; with none it fails NotFound.
C6_ReadDirBoundary ==
    (last.op = "read_dir" /\ WellFormed /\ BasesAbove = {})
    => /\ last.calls = <<>>
       /\ IF BasesBeneath = {}
          THEN last.result.status = "NotFound"
          ELSE /\ last.result.status = "Ok"
               /\ {e.path : e \in last.result.entries}
                     = {Suffix(b, P) : b \in BasesBeneath}
               /\ Cardinality(last.result.entries) = Cardinality(BasesBeneath)
               /\ \A e \in last.result.entries : IsVirtualDir(e.meta)

\* read_dir of a boundary directory listed two mount points.
C6_Witness ==
    /\ last.op = "read_dir"
    /\ WellFormed
    /\ BasesAbove = {}
    /\ Cardinality(BasesBeneath) = 2
    /\ Cardinality(last.result.entries) = 2

\* C7: every key of a successful read_dir(P) is a full path of the called
\* filesystem: it has P as a leading-segment prefix.
C7_ReadDirKeysAreFullPaths ==
    (last.op = "read_dir" /\ last.result.status = "Ok")
    => \A e \in last.result.entries : IsPrefix(P, e.path)

\* C8 as stated: an operation on a path with a segment that is not plain
\* fails with invalid input, calls no backend and leaves the table alone.
C8_NonPlainSegmentRejected ==
    (last.op \in FsOps /\ HasNonPlainSegment(last.path))
    => /\ last.result.status = "InvalidInput"
       /\ last.calls = <<>>
       /\ mounted = last.pre

\* C8 amended: an operation on a path with a component that is not plain
\* ("..", a root, a prefix, or a "." that begins the path) fails with invalid
\* input, calls no backend and leaves the table alone.
C8_NonPlainComponentRejected ==
    (last.op \in FsOps /\ HasNonPlainComponent(last.path))
    => /\ last.result.status = "InvalidInput"
       /\ last.calls = <<>>
       /\ mounted = last.pre

\* A path with ".." was rejected with a backend bound at the empty base.
C8_Witness ==
    /\ last.op \in FsOps
    /\ \E i \in DOMAIN last.path : last.path[i] = ParentDir
    /\ <<>> \in DOMAIN last.pre
    /\ last.result.status = "InvalidInput"

\* C9: metadata of a boundary path (some bound base beneath it, none above)
\* returns the read-only directory metadata without length or timestamps,
\* and calls no backend.
C9_BoundaryMetadata ==
    (/\ last.op = "metadata"
     /\ WellFormed
     /\ BasesBeneath # {}
     /\ BasesAbove = {})
    => /\ last.result.status = "Ok"
       /\ IsVirtualDir(last.result.meta)
       /\ last.calls = <<>>

\* metadata of a named directory above a mount point.
C9_Witness ==
    /\ last.op = "metadata"
    /\ WellFormed
    /\ P # <<>>
    /\ BasesBeneath # {}
    /\ BasesAbove = {}
    /\ last.result.status = "Ok"

\* C10: open_file, remove_file, remove_dir and remove_dir_all on a
\* well-formed path that no bound base prefixes call no backend, leave the
\* table alone, and fail PermissionDenied when some bound base lies beneath
\* the path and NotFound otherwise.
C10_BoundaryErrors ==
    (/\ last.op \in {"open_file", "remove_file", "remove_dir", "remove_dir_all"}
     /\ WellFormed
     /\ BasesAbove = {})
    => /\ last.calls = <<>>
       /\ mounted = last.pre
       /\ last.result.status =
             IF BasesBeneath # {} THEN "PermissionDenied" ELSE "NotFound"

\* A removal aimed at a boundary directory was denied.
C10_Witness ==
    /\ last.op \in {"remove_file", "remove_dir", "remove_dir_all"}
    /\ WellFormed
    /\ BasesAbove = {}
    /\ BasesBeneath # {}
    /\ last.result.status = "PermissionDenied"
====
